---------------------------- MODULE Spec2Model ----------------------------
(***************************************************************************)
(* Particle-in-a-box simulation (sim.py): the parallel time-stepping       *)
(* driver, its double buffer, the worker pool and the per-particle update  *)
(* compute_particle.                                                       *)
(*                                                                         *)
(* Real numbers are exact rationals <<n, d>> (d > 0, lowest terms).  The   *)
(* modules const, box, rk4, eqnmotion and output are imported by sim.py;   *)
(* they are modelled from their documented contracts.                      *)
(***************************************************************************)
EXTENDS Integers, Sequences, FiniteSets, TLC

(* ------------------------------ bounds -------------------------------- *)
MaxN == 2
MaxT == 2
MaxDt == 2
MaxV == 2
MaxBox == 2
MaxSeed == 7
MaxWorkers == 2

(* --------------------------- exact rationals -------------------------- *)
Abs(a) == IF a < 0 THEN -a ELSE a

RECURSIVE Gcd(_, _)
Gcd(a, b) == IF b = 0 THEN a ELSE Gcd(b, a % b)

(* the non-finite value (nan) of floating-point arithmetic: x / 0 is not an
   exception in numpy; every operation on it yields it, every comparison with
   it is false *)
NaN == <<0, 0>>

Rat(n, d) ==
    IF d = 0 THEN NaN
    ELSE LET g == Gcd(Abs(n), Abs(d))
             s == IF (n < 0) = (d < 0) THEN 1 ELSE -1
         IN  <<s * (Abs(n) \div g), Abs(d) \div g>>

R(n) == <<n, 1>>
RAdd(a, b) == Rat(a[1] * b[2] + b[1] * a[2], a[2] * b[2])
RSub(a, b) == Rat(a[1] * b[2] - b[1] * a[2], a[2] * b[2])
RMul(a, b) == Rat(a[1] * b[1], a[2] * b[2])
RDiv(a, b) == Rat(a[1] * b[2], a[2] * b[1])
RNeg(a) == <<-a[1], a[2]>>
RLt(a, b) == a[2] # 0 /\ b[2] # 0 /\ a[1] * b[2] < b[1] * a[2]
RLe(a, b) == a[2] # 0 /\ b[2] # 0 /\ a[1] * b[2] <= b[1] * a[2]

(* a particle state is [x, y, vx, vy]; numpy arithmetic is element-wise *)
VAdd(s, u) == <<RAdd(s[1], u[1]), RAdd(s[2], u[2]), RAdd(s[3], u[3]), RAdd(s[4], u[4])>>
VScale(h, s) == <<RMul(h, s[1]), RMul(h, s[2]), RMul(h, s[3]), RMul(h, s[4])>>
ZeroState == <<R(0), R(0), R(0), R(0)>>

(* ------------------- imported modules (from contract) ------------------ *)
(* the pair interaction law eqnmotion is configured with: "none", or "inverse",
   an inverse-distance law of strength Coupling, singular where two positions
   coincide *)
VARIABLE law

Laws == {"none", "inverse"}
Coupling == 0

(* the inverse-distance law for the separation (dx, dy), r2 = dx^2 + dy^2 *)
InverseLaw(dx, dy, r2) ==
    <<RMul(R(Coupling), RDiv(dx, r2)), RMul(R(Coupling), RDiv(dy, r2))>>

Separation(dx, dy) == InverseLaw(dx, dy, RAdd(RMul(dx, dx), RMul(dy, dy)))

(* the acceleration of a particle in state s due to one other particle *)
Interaction(s, other) ==
    IF law = "none" THEN <<R(0), R(0)>>
    ELSE Separation(RSub(other[1], s[1]), RSub(other[2], s[2]))

PairAdd(a, b) == <<RAdd(a[1], b[1]), RAdd(a[2], b[2])>>

RECURSIVE SumInteraction(_, _, _, _)
SumInteraction(s, particles, idx, js) ==
    IF js = {} THEN <<R(0), R(0)>>
    ELSE LET j == CHOOSE k \in js : TRUE
         IN  PairAdd(SumInteraction(s, particles, idx, js \ {j}),
                     Interaction(s, particles[j]))

Derivative(s, a) == <<s[3], s[4], a[1], a[2]>>

(* eqnmotion.eqnmotion(s, particles, idx): (vx, vy, ax, ay), self-term excluded *)
eqnmotion(s, particles, idx) ==
    Derivative(s, SumInteraction(s, particles, idx, (DOMAIN particles) \ {idx}))

(* rk4.rk4_step(f, s, particles, idx, h): the classical RK4 increment; every
   call of sim.py passes f = eqnmotion.eqnmotion.  The stages k1..k4 are
   computed one after the other *)
rk4_sum(h, k1, k2, k3, k4) ==
    VScale(RMul(h, <<1, 6>>),
           VAdd(VAdd(k1, VScale(R(2), k2)), VAdd(VScale(R(2), k3), k4)))

rk4_k4(s, particles, idx, h, k1, k2, k3) ==
    rk4_sum(h, k1, k2, k3, eqnmotion(VAdd(s, VScale(h, k3)), particles, idx))

rk4_k3(s, particles, idx, h, k1, k2) ==
    rk4_k4(s, particles, idx, h, k1, k2,
           eqnmotion(VAdd(s, VScale(RMul(h, <<1, 2>>), k2)), particles, idx))

rk4_k2(s, particles, idx, h, k1) ==
    rk4_k3(s, particles, idx, h, k1,
           eqnmotion(VAdd(s, VScale(RMul(h, <<1, 2>>), k1)), particles, idx))

rk4_step(s, particles, idx, h) ==
    rk4_k2(s, particles, idx, h, eqnmotion(s, particles, idx))

(* box.box(0.0, box_size, 0.0, box_size): the walls in priority order *)
Walls == <<"left", "right", "bottom", "top">>
WallAxis(w) == IF w \in {"left", "right"} THEN 1 ELSE 2
WallCoord(w, bs) == IF w \in {"left", "bottom"} THEN R(0) ELSE R(bs)

(* the value standing for "no crossing fraction" (not a rational: d = 0) *)
NoLambda == NaN

(* crossing fraction of the segment s_old -> s_new against wall w, or NoLambda *)
Lambda(w, bs, s_old, s_new) ==
    LET c == WallAxis(w)
        d == RSub(s_new[c], s_old[c])
    IN  IF d = R(0) THEN NoLambda
        ELSE LET l == RDiv(RSub(WallCoord(w, bs), s_old[c]), d)
             IN  IF RLt(R(0), l) /\ RLe(l, R(1)) THEN l ELSE NoLambda

(* simbox.left_box(s_old, s_new): (where, lambda) of the first wall crossed,
   ties resolved by wall priority; <<"None", NoLambda>> when no wall is crossed *)
left_box(bs, s_old, s_new) ==
    LET hit == {k \in 1..4 : Lambda(Walls[k], bs, s_old, s_new) # NoLambda}
        lam(k) == Lambda(Walls[k], bs, s_old, s_new)
        first == {k \in hit : \A m \in hit :
                     RLt(lam(k), lam(m)) \/ (lam(k) = lam(m) /\ k <= m)}
    IN  IF hit = {} THEN <<"None", NoLambda>>
        ELSE LET k == CHOOSE k \in first : TRUE
             IN  <<Walls[k], lam(k)>>

(* box.box.reflect(s, where): negate the velocity component normal to the wall *)
reflect(s, where) ==
    IF where \in {"left", "right"}
    THEN <<s[1], s[2], RNeg(s[3]), s[4]>>
    ELSE <<s[1], s[2], s[3], RNeg(s[4])>>

(* ------------------------------- state --------------------------------- *)
VARIABLES
    N, box_size, dt, t_max,   \* from const import N, box_size, dt, t_max
    v_max,                    \* from const import v_max
    bufs,                     \* the two numpy arrays, "A" (line 25) and "B" (line 34)
    particles_s_old,          \* which array the name particles_s_old refers to
    particles_s_new,          \* which array the name particles_s_new refers to
    pc,                       \* position of the main process
    total_steps, current_step, t,
    outfile,                  \* the records output() has written, in order
    pool,                     \* "none", "open" or "closed"
    poolSize,                 \* number of worker processes of the pool
    tasks,                    \* the tasks of the last starmap call, in the order of args
    dispatched,               \* number of starmap calls made so far
    results,                  \* the list starmap returned
    k,                        \* position of the unpack loop in results
    writes,                   \* per slot: writes into the new buffer in this step
    error                     \* the exception that ended the run, or "none"

vars == <<N, box_size, dt, t_max, v_max, law, bufs, particles_s_old, particles_s_new, pc,
          total_steps, current_step, t, outfile, pool, poolSize, tasks,
          dispatched, results, k, writes, error>>

config == <<N, box_size, dt, t_max, v_max, law>>


Idx == 0 .. (N - 1)

(* ------------------------- compute_particle ---------------------------- *)
(* reflect applied to the full-step candidate even when no wall is crossed *)
compute_particle_AlwaysReflect(idx, particles) ==
    LET s_old == particles[idx]
        s_new == VAdd(s_old, rk4_step(s_old, particles, idx, R(dt)))
        hit == left_box(box_size, s_old, s_new)
        where == hit[1]
        lambda_inters == hit[2]
    IN  IF where # "None"
        THEN LET s_i == VAdd(s_old, rk4_step(s_old, particles, idx,
                                             RMul(lambda_inters, R(dt))))
                 s_inters == reflect(s_i, where)
             IN  <<idx, VAdd(s_inters,
                             rk4_step(s_inters, particles, idx,
                                      RMul(RSub(R(1), lambda_inters), R(dt))))>>
        ELSE <<idx, reflect(s_new, "right")>>

(* the remaining step taken with lambda_inters * dt instead of (1 - lambda_inters) * dt *)
compute_particle_SameLambda(idx, particles) ==
    LET s_old == particles[idx]
        s_new == VAdd(s_old, rk4_step(s_old, particles, idx, R(dt)))
        hit == left_box(box_size, s_old, s_new)
        where == hit[1]
        lambda_inters == hit[2]
    IN  IF where # "None"
        THEN LET s_i == VAdd(s_old, rk4_step(s_old, particles, idx,
                                             RMul(lambda_inters, R(dt))))
                 s_inters == reflect(s_i, where)
             IN  <<idx, VAdd(s_inters,
                             rk4_step(s_inters, particles, idx,
                                      RMul(lambda_inters, R(dt))))>>
        ELSE <<idx, s_new>>

(* a reflection that negates both velocity components *)
compute_particle_ReflectBoth(idx, particles) ==
    LET s_old == particles[idx]
        s_new == VAdd(s_old, rk4_step(s_old, particles, idx, R(dt)))
        hit == left_box(box_size, s_old, s_new)
        where == hit[1]
        lambda_inters == hit[2]
    IN  IF where # "None"
        THEN LET s_i == VAdd(s_old, rk4_step(s_old, particles, idx,
                                             RMul(lambda_inters, R(dt))))
                 s_inters == reflect(reflect(s_i, "left"), "top")
             IN  <<idx, VAdd(s_inters,
                             rk4_step(s_inters, particles, idx,
                                      RMul(RSub(R(1), lambda_inters), R(dt))))>>
        ELSE <<idx, s_new>>

(* the remaining step taken before the reflection instead of after it *)
compute_particle_ReflectLast(idx, particles) ==
    LET s_old == particles[idx]
        s_new == VAdd(s_old, rk4_step(s_old, particles, idx, R(dt)))
        hit == left_box(box_size, s_old, s_new)
        where == hit[1]
        lambda_inters == hit[2]
    IN  IF where # "None"
        THEN LET s_i == VAdd(s_old, rk4_step(s_old, particles, idx,
                                             RMul(lambda_inters, R(dt))))
                 s_inters == reflect(s_i, where)
             IN  <<idx, reflect(VAdd(s_i,
                                     rk4_step(s_i, particles, idx,
                                              RMul(RSub(R(1), lambda_inters), R(dt)))),
                                where)>>
        ELSE <<idx, s_new>>

(* the result returned with index 0 instead of idx *)
compute_particle_IdxZero(idx, particles) ==
    LET s_old == particles[idx]
        s_new == VAdd(s_old, rk4_step(s_old, particles, idx, R(dt)))
        hit == left_box(box_size, s_old, s_new)
        where == hit[1]
        lambda_inters == hit[2]
    IN  IF where # "None"
        THEN LET s_i == VAdd(s_old, rk4_step(s_old, particles, idx,
                                             RMul(lambda_inters, R(dt))))
                 s_inters == reflect(s_i, where)
             IN  <<0, VAdd(s_inters,
                             rk4_step(s_inters, particles, idx,
                                      RMul(RSub(R(1), lambda_inters), R(dt))))>>
        ELSE <<0, s_new>>

compute_particle(idx, particles) ==
    LET s_old == particles[idx]
        s_new == VAdd(s_old, rk4_step(s_old, particles, idx, R(dt)))
        hit == left_box(box_size, s_old, s_new)
        where == hit[1]
        lambda_inters == hit[2]
    IN  IF where # "None"
        THEN LET s_i == VAdd(s_old, rk4_step(s_old, particles, idx,
                                             RMul(lambda_inters, R(dt))))
                 s_inters == reflect(s_i, where)
             IN  <<idx, VAdd(s_inters,
                             rk4_step(s_inters, particles, idx,
                                      RMul(RSub(R(1), lambda_inters), R(dt))))>>
        ELSE <<idx, s_new>>

(* the calls compute_particle makes to the imported functions, in order,
   with the step size of each rk4_step call and the wall of the reflect call *)
compute_particle_calls(idx, particles) ==
    LET s_old == particles[idx]
        s_new == VAdd(s_old, rk4_step(s_old, particles, idx, R(dt)))
        hit == left_box(box_size, s_old, s_new)
        where == hit[1]
        lambda_inters == hit[2]
    IN  IF where # "None"
        THEN << <<"rk4_step", R(dt)>>, <<"left_box">>,
                <<"rk4_step", RMul(lambda_inters, R(dt))>>,
                <<"reflect", where>>,
                <<"rk4_step", RMul(RSub(R(1), lambda_inters), R(dt))>> >>
        ELSE << <<"rk4_step", R(dt)>>, <<"left_box">> >>

(* ------------------------ initial particle states ---------------------- *)
NumStates(bs) == (bs + 1) * (bs + 1) * (2 * v_max + 1) * (2 * v_max + 1)

(* one particle state from a generator value: x, y in 0..bs, vx, vy in -v_max..v_max *)
Decode(code, bs) ==
    LET p == bs + 1
        q == 2 * v_max + 1
    IN  <<R(code % p), R((code \div p) % p),
          R(((code \div (p * p)) % q) - v_max),
          R(((code \div (p * p * q)) % q) - v_max)>>

(* the pseudo-random generator behind random.uniform: a linear congruence *)
RECURSIVE Draw(_, _, _)
Draw(seed, i, bs) ==
    LET prev == IF i = 0 THEN seed ELSE Draw(seed, i - 1, bs)
    IN  (37 * prev + 11) % NumStates(bs)

Sample(seed, n, bs) == [i \in 0 .. (n - 1) |-> Decode(Draw(seed, i, bs), bs)]

(* int(np.ceil(a / b)) for b # 0 *)
CeilDiv(a, b) ==
    LET n == IF b < 0 THEN -a ELSE a
        d == Abs(b)
    IN  -((-n) \div d)

(* -------------------------------- Init --------------------------------- *)
Init ==
    /\ N \in -1 .. MaxN
    /\ box_size \in {0, MaxBox}
    /\ dt \in -1 .. MaxDt
    /\ t_max \in {-1, 0, 1, MaxT}
    /\ v_max \in {0, MaxV}
    /\ law \in (IF N >= 2 THEN Laws ELSE {"none"})
    /\ bufs = [A |-> <<>>, B |-> <<>>]
    /\ particles_s_old = "A"
    /\ particles_s_new = "B"
    /\ pc = "module"
    /\ total_steps = 0
    /\ current_step = 0
    /\ t = 0
    /\ outfile = <<>>
    /\ pool = "none"
    /\ poolSize = 0
    /\ tasks = <<>>
    /\ dispatched = 0
    /\ results = <<>>
    /\ k = 0
    /\ writes = <<>>
    /\ error = "none"

(* ------------------------------- actions ------------------------------- *)
Raise(e) ==
    /\ pc' = "failed"
    /\ error' = e

(* lines 25-35: allocate and fill the old buffer, allocate the new buffer.
   np.zeros((N, 4)) raises ValueError for a negative N. *)
ModuleInit ==
    /\ pc = "module"
    /\ IF N < 0
       THEN /\ Raise("ValueError")
            /\ UNCHANGED bufs
       ELSE /\ \E seed \in 0 .. MaxSeed :
                 bufs' = [A |-> Sample(seed, N, box_size),
                          B |-> [i \in Idx |-> ZeroState]]
            /\ pc' = "main"
            /\ UNCHANGED error
    /\ UNCHANGED <<config, poolSize, dispatched, particles_s_old, particles_s_new, total_steps,
                   current_step, t, outfile, pool, tasks, results, k, writes>>

(* line 61: total_steps = int(np.ceil(t_max / dt)); dt = 0 raises *)
ComputeTotalSteps ==
    /\ pc = "main"
    /\ IF dt = 0
       THEN /\ Raise("ZeroDivisionError")
            /\ UNCHANGED total_steps
       ELSE /\ total_steps' = CeilDiv(t_max, dt)
            /\ pc' = "open"
            /\ UNCHANGED error
    /\ UNCHANGED <<config, poolSize, dispatched, bufs, particles_s_old, particles_s_new,
                   current_step, t, outfile, pool, tasks, results, k, writes>>

(* output(f, t, particles): one record (time, ensemble contents) appended *)
output(f, time, particles) == Append(f, <<time, particles>>)

(* lines 65-70: open the file, t = 0.0, current_step = 0, write the initial state *)
InitialOutput ==
    /\ pc = "open"
    /\ t' = 0
    /\ current_step' = 0
    /\ outfile' = output(outfile, 0, bufs[particles_s_old])
    /\ pc' = "pool"
    /\ UNCHANGED <<config, poolSize, dispatched, bufs, particles_s_old, particles_s_new, total_steps,
                   pool, tasks, results, k, writes, error>>

(* lines 65-70 when open, output, flush or fsync raises OSError *)
InitialOutputFail ==
    /\ pc = "open"
    /\ Raise("OSError")
    /\ UNCHANGED <<config, poolSize, dispatched, bufs, particles_s_old, particles_s_new, total_steps,
                   current_step, t, outfile, pool, tasks, results, k, writes>>

(* line 73: pool = mp.Pool(), with os.cpu_count() worker processes: a single
   worker, or as many as the machine allows *)
PoolCreate ==
    /\ pc = "pool"
    /\ pool' = "open"
    /\ \E w \in {1, MaxWorkers} : poolSize' = w
    /\ pc' = "loop"
    /\ UNCHANGED <<config, dispatched, bufs, particles_s_old, particles_s_new, total_steps,
                   current_step, t, outfile, tasks, results, k, writes, error>>

(* the loop test written with <= : one step too many *)
LoopTest_Le ==
    /\ pc = "loop"
    /\ pc' = IF current_step <= total_steps THEN "dispatch" ELSE "close"
    /\ UNCHANGED <<config, poolSize, dispatched, bufs, particles_s_old,
                   particles_s_new, total_steps, current_step, t, outfile, pool,
                   tasks, results, k, writes, error>>

(* line 76: while current_step < total_steps *)
LoopTest ==
    /\ pc = "loop"
    /\ pc' = IF current_step < total_steps THEN "dispatch" ELSE "close"
    /\ UNCHANGED <<config, poolSize, dispatched, bufs, particles_s_old, particles_s_new, total_steps,
                   current_step, t, outfile, pool, tasks, results, k, writes,
                   error>>

(* the argument list built from the wrong buffer: (i, particles_s_new) *)
Dispatch_NewBuffer ==
    /\ pc = "dispatch"
    /\ tasks' = [j \in 1 .. N |->
                   [status |-> "queued", idx |-> j - 1,
                    particles |-> bufs[particles_s_new], result |-> <<>>]]
    /\ dispatched' = dispatched + 1
    /\ writes' = [i \in Idx |-> 0]
    /\ pc' = "starmap"
    /\ UNCHANGED <<config, poolSize, bufs, particles_s_old, particles_s_new,
                   total_steps, current_step, t, outfile, pool, results, k, error>>

(* the argument list built over range(N - 1): the last particle is left out *)
Dispatch_Short ==
    /\ pc = "dispatch"
    /\ tasks' = [j \in 1 .. (N - 1) |->
                   [status |-> "queued", idx |-> j - 1,
                    particles |-> bufs[particles_s_old], result |-> <<>>]]
    /\ dispatched' = dispatched + 1
    /\ writes' = [i \in Idx |-> 0]
    /\ pc' = "starmap"
    /\ UNCHANGED <<config, poolSize, bufs, particles_s_old, particles_s_new,
                   total_steps, current_step, t, outfile, pool, results, k, error>>

(* a pool made anew for every step: mp.Pool() called inside the loop *)
Dispatch_NewPool ==
    /\ pc = "dispatch"
    /\ pool' = "open"
    /\ \E w \in {1, MaxWorkers} : poolSize' = w
    /\ tasks' = [j \in 1 .. N |->
                   [status |-> "queued", idx |-> j - 1,
                    particles |-> bufs[particles_s_old], result |-> <<>>]]
    /\ dispatched' = dispatched + 1
    /\ writes' = [i \in Idx |-> 0]
    /\ pc' = "starmap"
    /\ UNCHANGED <<config, bufs, particles_s_old, particles_s_new, total_steps,
                   current_step, t, outfile, results, k, error>>

(* lines 78-79: args = [(i, particles_s_old) for i in range(N)] handed to
   pool.starmap; each task carries its own pickled copy of the array *)
Dispatch ==
    /\ pc = "dispatch"
    /\ tasks' = [j \in 1 .. N |->
                   [status |-> "queued", idx |-> j - 1,
                    particles |-> bufs[particles_s_old], result |-> <<>>]]
    /\ dispatched' = dispatched + 1
    /\ writes' = [i \in Idx |-> 0]
    /\ pc' = "starmap"
    /\ UNCHANGED <<config, poolSize, bufs, particles_s_old, particles_s_new, total_steps,
                   current_step, t, outfile, pool, results, k, error>>

(* an idle pool worker takes the next task from the task queue (in the order
   of args) *)
TaskStart(i) ==
    /\ pc = "starmap"
    /\ tasks[i].status = "queued"
    /\ \A j \in DOMAIN tasks : j < i => tasks[j].status # "queued"
    /\ Cardinality({j \in DOMAIN tasks : tasks[j].status = "running"}) < poolSize
    /\ tasks' = [tasks EXCEPT ![i].status = "running"]
    /\ UNCHANGED <<config, poolSize, dispatched, bufs, particles_s_old, particles_s_new, pc,
                   total_steps, current_step, t, outfile, pool, results, k,
                   writes, error>>

(* the worker's call of compute_particle on the task's args returns *)
TaskRun(i) ==
    /\ pc = "starmap"
    /\ tasks[i].status = "running"
    /\ tasks' = [tasks EXCEPT ![i].status = "done",
                              ![i].result =
                                  compute_particle(tasks[i].idx, tasks[i].particles)]
    /\ UNCHANGED <<config, poolSize, dispatched, bufs, particles_s_old, particles_s_new, pc,
                   total_steps, current_step, t, outfile, pool, results, k,
                   writes, error>>

(* the worker's call of compute_particle raises *)
TaskFail(i) ==
    /\ pc = "starmap"
    /\ tasks[i].status = "running"
    /\ tasks' = [tasks EXCEPT ![i].status = "failed"]
    /\ UNCHANGED <<config, poolSize, dispatched, bufs, particles_s_old, particles_s_new, pc,
                   total_steps, current_step, t, outfile, pool, results, k,
                   writes, error>>

ResultsOf(ts) == [j \in DOMAIN ts |-> ts[j].result]
IsDone(task) == task.status = "done"

(* a map that returns as soon as some result is in, without waiting for the rest *)
StarmapReturn_NoBarrier ==
    /\ pc = "starmap"
    /\ \E j \in DOMAIN tasks : tasks[j].status = "done"
    /\ results' = ResultsOf(SelectSeq(tasks, IsDone))
    /\ k' = 1
    /\ pc' = "unpack"
    /\ UNCHANGED <<config, poolSize, dispatched, bufs, particles_s_old,
                   particles_s_new, total_steps, current_step, t, outfile, pool,
                   tasks, writes, error>>

(* a map that swallows the exception of a failed task and returns the results
   of the others *)
StarmapReturn_DropFailed ==
    /\ pc = "starmap"
    /\ \A j \in DOMAIN tasks : tasks[j].status \in {"done", "failed"}
    /\ results' = ResultsOf(SelectSeq(tasks, IsDone))
    /\ k' = 1
    /\ pc' = "unpack"
    /\ UNCHANGED <<config, poolSize, dispatched, bufs, particles_s_old,
                   particles_s_new, total_steps, current_step, t, outfile, pool,
                   tasks, writes, error>>

(* line 79: starmap returns once every task has a result: the list of the
   results in the order of args *)
StarmapReturn ==
    /\ pc = "starmap"
    /\ \A j \in DOMAIN tasks : tasks[j].status = "done"
    /\ results' = ResultsOf(tasks)
    /\ k' = 1
    /\ pc' = "unpack"
    /\ UNCHANGED <<config, poolSize, dispatched, bufs, particles_s_old,
                   particles_s_new, total_steps, current_step, t, outfile, pool,
                   tasks, writes, error>>

(* line 79: starmap re-raises the exception of a failed task in the main process *)
StarmapRaise ==
    /\ pc = "starmap"
    /\ \E j \in DOMAIN tasks : tasks[j].status = "failed"
    /\ Raise("TaskError")
    /\ UNCHANGED <<config, poolSize, dispatched, bufs, particles_s_old, particles_s_new, total_steps,
                   current_step, t, outfile, pool, tasks, results, k, writes>>

(* the unpack loop updating in place: particles_s_old[idx, :] = s_new *)
Unpack_InPlace ==
    /\ pc = "unpack"
    /\ IF k <= Len(results)
       THEN LET idx == results[k][1]
                s_new == results[k][2]
            IN  /\ bufs' = [bufs EXCEPT ![particles_s_old][idx] = s_new]
                /\ writes' = [writes EXCEPT ![idx] = @ + 1]
                /\ k' = k + 1
                /\ UNCHANGED pc
       ELSE /\ pc' = "swap"
            /\ UNCHANGED <<bufs, writes, k>>
    /\ UNCHANGED <<config, poolSize, dispatched, particles_s_old,
                   particles_s_new, total_steps, current_step, t, outfile, pool,
                   tasks, results, error>>

(* the unpack loop run over results[1:]: the first result is not written *)
Unpack_SkipFirst ==
    /\ pc = "unpack"
    /\ IF k <= Len(results)
       THEN LET idx == results[k][1]
                s_new == results[k][2]
            IN  /\ IF k = 1
                   THEN UNCHANGED <<bufs, writes>>
                   ELSE /\ bufs' = [bufs EXCEPT ![particles_s_new][idx] = s_new]
                        /\ writes' = [writes EXCEPT ![idx] = @ + 1]
                /\ k' = k + 1
                /\ UNCHANGED pc
       ELSE /\ pc' = "swap"
            /\ UNCHANGED <<bufs, writes, k>>
    /\ UNCHANGED <<config, poolSize, dispatched, particles_s_old,
                   particles_s_new, total_steps, current_step, t, outfile, pool,
                   tasks, results, error>>

(* lines 82-83: for idx, s_new in results: particles_s_new[idx, :] = s_new *)
Unpack ==
    /\ pc = "unpack"
    /\ IF k <= Len(results)
       THEN LET idx == results[k][1]
                s_new == results[k][2]
            IN  /\ bufs' = [bufs EXCEPT ![particles_s_new][idx] = s_new]
                /\ writes' = [writes EXCEPT ![idx] = @ + 1]
                /\ k' = k + 1
                /\ UNCHANGED pc
       ELSE /\ pc' = "swap"
            /\ UNCHANGED <<bufs, writes, k>>
    /\ UNCHANGED <<config, poolSize, dispatched, particles_s_old, particles_s_new, total_steps,
                   current_step, t, outfile, pool, tasks, results, error>>

(* the commit done by copying instead of exchanging the names:
   particles_s_old[:] = particles_s_new *)
Swap_Copy ==
    /\ pc = "swap"
    /\ bufs' = [bufs EXCEPT ![particles_s_old] = bufs[particles_s_new]]
    /\ pc' = "advance"
    /\ UNCHANGED <<config, poolSize, dispatched, particles_s_old, particles_s_new,
                   total_steps, current_step, t, outfile, pool, tasks, results,
                   k, writes, error>>

(* line 86: particles_s_old, particles_s_new = particles_s_new, particles_s_old *)
Swap ==
    /\ pc = "swap"
    /\ particles_s_old' = particles_s_new
    /\ particles_s_new' = particles_s_old
    /\ pc' = "advance"
    /\ UNCHANGED <<config, poolSize, dispatched, bufs, total_steps, current_step, t, outfile, pool,
                   tasks, results, k, writes, error>>

(* lines 89-90: current_step += 1; t = current_step * dt *)
Advance ==
    /\ pc = "advance"
    /\ current_step' = current_step + 1
    /\ t' = (current_step + 1) * dt
    /\ pc' = "output"
    /\ UNCHANGED <<config, poolSize, dispatched, bufs, particles_s_old, particles_s_new, total_steps,
                   outfile, pool, tasks, results, k, writes, error>>

(* the record written from the other buffer: output(f, t, particles_s_new) *)
StepOutput_New ==
    /\ pc = "output"
    /\ outfile' = output(outfile, t, bufs[particles_s_new])
    /\ pc' = "loop"
    /\ UNCHANGED <<config, poolSize, dispatched, bufs, particles_s_old,
                   particles_s_new, total_steps, current_step, t, pool, tasks,
                   results, k, writes, error>>

(* lines 93-95: output(f, t, particles_s_old), flush, fsync; back to line 76 *)
StepOutput ==
    /\ pc = "output"
    /\ outfile' = output(outfile, t, bufs[particles_s_old])
    /\ pc' = "loop"
    /\ UNCHANGED <<config, poolSize, dispatched, bufs, particles_s_old, particles_s_new, total_steps,
                   current_step, t, pool, tasks, results, k, writes, error>>

(* lines 93-95 when output, flush or fsync raises OSError *)
StepOutputFail ==
    /\ pc = "output"
    /\ Raise("OSError")
    /\ UNCHANGED <<config, poolSize, dispatched, bufs, particles_s_old, particles_s_new, total_steps,
                   current_step, t, outfile, pool, tasks, results, k, writes>>

(* lines 106-107: pool.close(); pool.join(); the run completes *)
PoolClose ==
    /\ pc = "close"
    /\ pool' = "closed"
    /\ pc' = "done"
    /\ UNCHANGED <<config, poolSize, dispatched, bufs, particles_s_old, particles_s_new, total_steps,
                   current_step, t, outfile, tasks, results, k, writes, error>>

Next ==
    \/ ModuleInit
    \/ ComputeTotalSteps
    \/ InitialOutput
    \/ InitialOutputFail
    \/ PoolCreate
    \/ LoopTest
    \/ Dispatch
    \/ \E j \in DOMAIN tasks : TaskStart(j)
    \/ \E j \in DOMAIN tasks : TaskFail(j)
    \/ \E j \in DOMAIN tasks : TaskRun(j)
    \/ StarmapReturn
    \/ StarmapRaise
    \/ Unpack
    \/ Swap
    \/ Advance
    \/ StepOutput
    \/ StepOutputFail
    \/ PoolClose

Spec == Init /\ [][Next]_vars

FairSpec == Spec /\ WF_vars(Next)

(* ------------------- compute_particle on its own ----------------------- *)
(* Scenario A: one particle next to the right wall of a box of size 10, moving
   towards it *)
ScenarioA ==
    [N |-> 1, box_size |-> 10, dt |-> 1, v_max |-> 5,
     particles |-> [i \in {0} |-> << <<99, 10>>, R(5), R(5), R(0)>>]]

(* the inputs of compute_particle: every ensemble the generator can produce
   for a valid configuration, and the ensemble of Scenario A *)
KernelInit ==
    /\ \/ /\ N \in 1 .. MaxN
          /\ box_size = MaxBox
          /\ dt \in 1 .. MaxDt
          /\ v_max \in {0, MaxV}
          /\ law \in (IF N >= 2 THEN Laws ELSE {"none"})
          /\ \E seed \in 0 .. (NumStates(box_size) - 1) :
                bufs = [A |-> Sample(seed, N, box_size),
                        B |-> [i \in 0 .. (N - 1) |-> ZeroState]]
       \/ /\ N = ScenarioA.N
          /\ box_size = ScenarioA.box_size
          /\ dt = ScenarioA.dt
          /\ v_max = ScenarioA.v_max
          /\ law = "none"
          /\ bufs = [A |-> ScenarioA.particles,
                     B |-> [i \in 0 .. (ScenarioA.N - 1) |-> ZeroState]]
    /\ t_max = MaxT * dt
    /\ total_steps = MaxT
    /\ particles_s_old = "A"
    /\ particles_s_new = "B"
    /\ pc = "kernel"
    /\ current_step = 0
    /\ t = 0
    /\ outfile = <<>>
    /\ pool = "none"
    /\ poolSize = 0
    /\ tasks = <<>>
    /\ dispatched = 0
    /\ results = <<>>
    /\ k = 0
    /\ writes = <<>>
    /\ error = "none"

(* compute_particle(i, particles_s_old) for every i in range(N), one after
   the other in a single process *)
KernelApply ==
    /\ pc = "kernel"
    /\ current_step < total_steps
    /\ results' = [j \in 1 .. N |-> compute_particle(j - 1, bufs[particles_s_old])]
    /\ pc' = "applied"
    /\ UNCHANGED <<config, poolSize, dispatched, bufs, particles_s_old,
                   particles_s_new, total_steps, current_step, t, outfile, pool,
                   tasks, k, writes, error>>

(* the results become the input of the next application *)
KernelAdvance ==
    /\ pc = "applied"
    /\ bufs' = [bufs EXCEPT ![particles_s_new] = [i \in Idx |-> results[i + 1][2]]]
    /\ particles_s_old' = particles_s_new
    /\ particles_s_new' = particles_s_old
    /\ current_step' = current_step + 1
    /\ t' = (current_step + 1) * dt
    /\ pc' = "kernel"
    /\ UNCHANGED <<config, poolSize, dispatched, total_steps, outfile, pool,
                   tasks, results, k, writes, error>>

KernelNext == KernelApply \/ KernelAdvance

KernelSpec == KernelInit /\ [][KernelNext]_vars

(* ------------------------------ properties ----------------------------- *)
InBox(s) ==
    /\ RLe(R(0), s[1]) /\ RLe(s[1], R(box_size))
    /\ RLe(R(0), s[2]) /\ RLe(s[2], R(box_size))

ValidConfig == N > 0 /\ box_size > 0 /\ dt > 0 /\ t_max > 0

Last(f) == f[Len(f)]

Interior(s) ==
    /\ RLt(R(0), s[1]) /\ RLt(s[1], R(box_size))
    /\ RLt(R(0), s[2]) /\ RLt(s[2], R(box_size))

(* C1: position invariant.  For a valid configuration and an initial ensemble
   inside the box, every particle of every committed (emitted) ensemble has its
   position inside [0, box_size] x [0, box_size], inclusive.  Stated here for
   initial positions strictly inside the box: a start exactly on a wall, where
   the crossing fraction is 0, is left out. *)
C1_PositionInvariant ==
    \A r \in 1 .. Len(outfile) :
        (ValidConfig /\ \A i \in Idx : Interior(outfile[1][2][i]))
            => \A i \in Idx : InBox(outfile[r][2][i])

(* C8: once the worker pool has been created, the run never ends (normally or
   by an exception) with the pool still open. *)
C8_PoolReleasedOnExit ==
    (ValidConfig /\ pc \in {"done", "failed"} /\ pool # "none") => pool = "closed"

(* C10: with N, box_size, dt or t_max <= 0 the run fails before any step and
   writes nothing: no record is ever emitted, no pool is created, no task is
   dispatched and the run does not complete normally. *)
C10_InvalidConfigurationFailsFast ==
    ~ValidConfig =>
        /\ outfile = <<>>
        /\ pool = "none"
        /\ dispatched = 0
        /\ pc # "done"

(* the ensemble one step after E: slot i is compute_particle(i, E) *)
StepOf(E) == [i \in DOMAIN E |-> compute_particle(i, E)[2]]

(* C2: determinism of a step.  Whatever the order in which the workers take,
   run and finish the tasks and whatever the number of workers, the ensemble
   held by the new buffer at the swap, and every emitted ensemble after the
   first, is the same function of the preceding committed ensemble. *)
C2_StepDeterminism ==
    /\ \A r \in 1 .. (Len(outfile) - 1) : outfile[r + 1][2] = StepOf(outfile[r][2])
    /\ pc = "swap" => bufs[particles_s_new] = StepOf(bufs[particles_s_old])

(* a second step in which the second task has finished while the first is
   still running on another worker, after a first step that moved a particle *)
C2_Witness ==
    /\ N = 2 /\ poolSize = 2 /\ pc = "starmap" /\ dispatched = 2
    /\ tasks[1].status = "running" /\ tasks[2].status = "done"
    /\ Len(outfile) = 2 /\ outfile[2][2] # outfile[1][2]
    /\ outfile[2][2][0] # outfile[2][2][1]

(* every task of the last starmap call is done and its result is in slot idx
   of buffer b, written exactly once *)
AllResultsIn(b) ==
    /\ Len(tasks) = N
    /\ \A j \in DOMAIN tasks :
          /\ tasks[j].status = "done"
          /\ writes[tasks[j].idx] = 1
          /\ bufs[b][tasks[j].idx] = tasks[j].result[2]

(* C3: barrier before the swap.  The buffers are swapped only when all N
   results of the step have been returned and written into the new buffer;
   the step counter is advanced and the record emitted only after that. *)
C3_BarrierBeforeSwap ==
    /\ [][particles_s_old' # particles_s_old => AllResultsIn(particles_s_new)]_vars
    /\ [][current_step' # current_step => AllResultsIn(particles_s_old)]_vars
    /\ [][(outfile' # outfile /\ outfile # <<>>) => AllResultsIn(particles_s_old)]_vars
    /\ [](pc \in {"swap", "advance", "output"} =>
             \A j \in DOMAIN tasks : tasks[j].status = "done")

(* the buffers have just been swapped in the second step of two particles *)
C3_Witness ==
    /\ N = 2 /\ pc = "advance" /\ dispatched = 2
    /\ particles_s_old = "A" /\ AllResultsIn("A")

(* C4: double-buffer isolation.  The two names never denote the same array;
   every task of a step carries, and computes its result from, the ensemble
   committed by the previous step (the old buffer), and between the dispatch
   and the swap no write touches the old buffer. *)
C4_DoubleBufferIsolation ==
    /\ [](particles_s_old # particles_s_new)
    /\ [](pc = "starmap" =>
             \A j \in DOMAIN tasks :
                 /\ tasks[j].particles = bufs[particles_s_old]
                 /\ tasks[j].particles = Last(outfile)[2])
    /\ [](pc \in {"starmap", "unpack", "swap"} =>
             \A j \in DOMAIN tasks :
                 tasks[j].status = "done" =>
                     tasks[j].result =
                         compute_particle(tasks[j].idx, Last(outfile)[2]))
    /\ [][(pc \in {"starmap", "unpack", "swap"}) =>
             (bufs'[particles_s_old] = bufs[particles_s_old])]_vars

(* the second step is being unpacked: the new buffer (the array that held the
   initial ensemble) is partly overwritten and differs from the old one *)
C4_Witness ==
    /\ N = 2 /\ pc = "unpack" /\ dispatched = 2 /\ k = 2
    /\ bufs[particles_s_new] # bufs[particles_s_old]
    /\ bufs[particles_s_new][0] # outfile[1][2][0]

(* C5: ensemble size.  Both buffers and every emitted ensemble have exactly N
   entries; a step dispatches each index 0..N-1 as exactly one task, and at
   the swap each slot has been written exactly once, with the result of the
   task of that same index. *)
C5_EnsembleSize ==
    /\ pc \notin {"module", "failed"} =>
          /\ DOMAIN bufs.A = Idx /\ Cardinality(DOMAIN bufs.A) = N
          /\ DOMAIN bufs.B = Idx /\ Cardinality(DOMAIN bufs.B) = N
    /\ \A r \in 1 .. Len(outfile) :
          DOMAIN outfile[r][2] = Idx /\ Cardinality(DOMAIN outfile[r][2]) = N
    /\ dispatched > 0 =>
          /\ Len(tasks) = N
          /\ \A i \in Idx :
                Cardinality({j \in DOMAIN tasks : tasks[j].idx = i}) = 1
          /\ \A i \in Idx : writes[i] <= 1
    /\ pc = "swap" =>
          \A i \in Idx :
              /\ writes[i] = 1
              /\ \E j \in DOMAIN tasks :
                    /\ tasks[j].idx = i
                    /\ tasks[j].result[1] = i
                    /\ bufs[particles_s_new][i] = tasks[j].result[2]

(* the second step of two particles is ready to be committed *)
C5_Witness ==
    /\ N = 2 /\ pc = "swap" /\ dispatched = 2
    /\ writes[0] = 1 /\ writes[1] = 1

(* C6: step count and termination.  For dt > 0 and t_max > 0, total_steps is
   ceil(t_max / dt); current_step grows by exactly 1 per committed step and
   never exceeds total_steps; a run that ends normally has committed exactly
   total_steps steps; and every run ends (normally when no task and no output
   fails). *)
C6_StepCountAndTermination ==
    /\ []((ValidConfig /\ pc \notin {"module", "main", "failed"}) =>
             /\ total_steps * dt >= t_max
             /\ (total_steps - 1) * dt < t_max)
    /\ [](ValidConfig => current_step <= total_steps)
    /\ [][current_step' # current_step =>
             (pc = "advance" /\ current_step' = current_step + 1)]_vars
    /\ [][pc = "loop" =>
             ((current_step < total_steps) <=> (pc' = "dispatch"))]_vars
    /\ []((ValidConfig /\ pc = "done") =>
             /\ current_step = total_steps
             /\ dispatched = total_steps
             /\ Len(outfile) = total_steps + 1)
    /\ (ValidConfig => <>(pc = "done" \/ error # "none"))

(* a valid run of two steps has completed *)
C6_Witness ==
    /\ ValidConfig /\ pc = "done" /\ error = "none"
    /\ total_steps = 2 /\ current_step = 2 /\ dt = 1 /\ t_max = 2

(* C7: output sequence.  Nothing is emitted or dispatched before the initial
   record (0, initial ensemble); record k carries t = k * dt and the ensemble
   of the old buffer after the k-th swap; it is emitted after step k and
   before step k + 1 is dispatched; a completed run has emitted
   total_steps + 1 records, with strictly increasing times when dt > 0. *)
C7_OutputSequence ==
    /\ pc \in {"module", "main", "open"} => (outfile = <<>> /\ dispatched = 0)
    /\ pc = "pool" => outfile = << <<0, bufs[particles_s_old]>> >>
    /\ \A r \in 1 .. Len(outfile) : outfile[r][1] = (r - 1) * dt
    /\ pc \in {"pool", "loop", "dispatch", "starmap", "unpack", "swap",
               "advance", "close", "done"} => Len(outfile) = current_step + 1
    /\ pc = "output" => Len(outfile) = current_step
    /\ dispatched <= Len(outfile) /\ Len(outfile) <= dispatched + 1
    /\ pc \in {"starmap", "unpack", "swap", "advance"} => dispatched = Len(outfile)
    /\ pc \in {"loop", "dispatch", "close", "done"} =>
          Last(outfile) = <<current_step * dt, bufs[particles_s_old]>>
    /\ (pc = "done" /\ total_steps >= 0) => Len(outfile) = total_steps + 1
    /\ dt > 0 => \A r \in 1 .. (Len(outfile) - 1) : outfile[r][1] < outfile[r + 1][1]

(* a completed valid run of two steps: three records, the last two differ *)
C7_Witness ==
    /\ ValidConfig /\ pc = "done" /\ Len(outfile) = 3
    /\ outfile[3][1] = 2 * dt
    /\ outfile[3][2] # outfile[2][2]

(* C9: a task failure is fatal for the step.  From the moment a task of the
   step has failed, no buffer is written or swapped, the step counter and the
   output stay as they are and no further step is dispatched; the failure
   reaches the main process as a fatal error, which ends the run with the
   records of the committed steps only. *)
C9_TaskFailureIsFatal ==
    /\ [][(\E j \in DOMAIN tasks : tasks[j].status = "failed") =>
             /\ UNCHANGED <<bufs, particles_s_old, particles_s_new,
                            current_step, t, outfile, dispatched, writes>>
             /\ pc' \in {"starmap", "failed"}]_vars
    /\ [](error = "TaskError" =>
             /\ pc = "failed"
             /\ Len(outfile) = current_step + 1
             /\ dispatched = current_step + 1
             /\ \A i \in Idx : writes[i] = 0
             /\ Last(outfile) = <<current_step * dt, bufs[particles_s_old]>>)
    /\ [][pc = "failed" => FALSE]_vars
    /\ ((\E j \in DOMAIN tasks : tasks[j].status = "failed")
            ~> (pc = "failed" /\ error = "TaskError"))

(* the second step of two particles has failed in one task after the other
   task had returned its result *)
C9_Witness ==
    /\ N = 2 /\ error = "TaskError" /\ current_step = 1
    /\ \E j \in DOMAIN tasks : tasks[j].status = "done"
    /\ \E j \in DOMAIN tasks : tasks[j].status = "failed"

(* every component of the particle state s is a finite number *)
IsFinite(s) == \A c \in 1 .. 4 : s[c][2] # 0

(* C11: numerical divergence is fatal.  For a valid configuration, a result
   with a non-finite component is never written into a buffer, the committed
   ensemble and every emitted record hold finite values only, and once a task
   of the step has returned a non-finite state the run goes no further than
   the map call or the fatal error. *)
C11_NumericalDivergenceIsFatal ==
    ValidConfig =>
        /\ \A r \in 1 .. Len(outfile) : \A i \in Idx : IsFinite(outfile[r][2][i])
        /\ pc \notin {"module"} => \A i \in Idx : IsFinite(bufs[particles_s_old][i])
        /\ (\E j \in DOMAIN tasks :
               tasks[j].status = "done" /\ ~IsFinite(tasks[j].result[2]))
              => pc \in {"starmap", "failed"}

(* the array b has held an ensemble that was handed to Output: record 1 is
   written from array "A", and the arrays alternate from record to record *)
HandedToOutput(b) == IF b = "A" THEN Len(outfile) >= 1 ELSE Len(outfile) >= 2

(* C12 as stated: once an ensemble has been committed and handed to Output,
   the contents of the array holding it are never modified again, not even
   through reuse of that array as the new buffer of a later step. *)
C12_CommittedBufferNeverModified ==
    [][\A b \in {"A", "B"} : HandedToOutput(b) => (bufs'[b] = bufs[b])]_vars

(* C12, amended: the records handed to Output never change and record r is
   written from array A for odd r, from array B for even r; the array that
   particles_s_old names is never written in place, so the committed ensemble
   changes only by the swap; an array that was handed to Output is written
   again only by the unpack loop of the next step but one, as its new buffer,
   after the ensemble that replaced it has itself been emitted. *)
C12_CommittedUntilReuse ==
    /\ [][\A r \in 1 .. Len(outfile) :
             Len(outfile') >= r /\ outfile'[r] = outfile[r]]_vars
    /\ [][outfile' # outfile =>
             /\ Last(outfile')[2] = bufs[particles_s_old]
             /\ particles_s_old = (IF Len(outfile') % 2 = 1 THEN "A" ELSE "B")]_vars
    /\ [][(pc # "module") => (bufs'[particles_s_old] = bufs[particles_s_old])]_vars
    /\ [][(bufs'[particles_s_old'] # bufs[particles_s_old]) =>
             (pc \in {"module", "swap"})]_vars
    /\ [][\A b \in {"A", "B"} :
             (HandedToOutput(b) /\ bufs'[b] # bufs[b]) =>
                 /\ pc = "unpack" /\ b = particles_s_new /\ dispatched >= 2
                 /\ Last(outfile)[2] = bufs[particles_s_old]
                 /\ Len(outfile) = dispatched]_vars

(* the unpack loop of the second step has overwritten slot 0 of array A, which
   held the emitted initial ensemble; the record of that ensemble is intact *)
C12_Witness ==
    /\ N >= 1 /\ pc = "unpack" /\ dispatched = 2 /\ particles_s_new = "A"
    /\ writes[0] = 1
    /\ bufs.A[0] # outfile[1][2][0]
    /\ bufs.B = outfile[2][2]

(* C13: persistent pool.  The pool is created once, before the first step
   is dispatched; it stays open, with the same workers, through every step of
   the loop; it is closed only at the end of the loop, when the last step has
   been committed and emitted, and a closed pool is never used or reopened. *)
C13_PersistentPool ==
    /\ [][pool' # pool =>
             \/ /\ pool = "none" /\ pool' = "open"
                /\ pc = "pool" /\ dispatched = 0 /\ current_step = 0
             \/ /\ pool = "open" /\ pool' = "closed"
                /\ pc = "close" /\ current_step >= total_steps
                /\ dispatched = current_step
                /\ Last(outfile) = <<current_step * dt, bufs[particles_s_old]>>]_vars
    /\ [][(pool # "none") => (poolSize' = poolSize)]_vars
    /\ [](pc \in {"loop", "dispatch", "starmap", "unpack", "swap", "advance",
                   "output", "close"} => pool = "open")
    /\ [](dispatched > 0 => pool # "none")
    /\ [](pool = "closed" => pc = "done")

(* a run of two steps of two particles on a pool of two workers has ended and
   the pool is closed *)
C13_Witness ==
    /\ pool = "closed" /\ poolSize = 2 /\ N = 2 /\ dispatched = 2
    /\ current_step = total_steps

(* ------------- properties of compute_particle on its own --------------- *)
(* the input of particle i, its full-dt candidate, what crossing detection
   reports for the two, and the state compute_particle returned *)
OldState(i) == bufs[particles_s_old][i]
Candidate(i) ==
    VAdd(OldState(i), rk4_step(OldState(i), bufs[particles_s_old], i, R(dt)))
Detected(i) == left_box(box_size, OldState(i), Candidate(i))
Returned(i) == results[i + 1][2]

(* the state reached from s in free flight (zero force) over the time h *)
FreeFlight(s, h) ==
    <<RAdd(s[1], RMul(h, s[3])), RAdd(s[2], RMul(h, s[4])), s[3], s[4]>>

(* C14: no-crossing fidelity.  When crossing detection on (old state, full-dt
   candidate) reports no crossing, compute_particle returns index and old
   state + the full-dt RK4 increment; the only calls are that rk4_step and
   left_box; under zero force the result is the free flight over dt, with the
   velocity as it was. *)
C14_NoCrossingFidelity ==
    pc = "applied" =>
        \A i \in Idx :
            Detected(i)[1] = "None" =>
                /\ results[i + 1] = <<i, Candidate(i)>>
                /\ compute_particle_calls(i, bufs[particles_s_old])
                       = << <<"rk4_step", R(dt)>>, <<"left_box">> >>
                /\ law = "none" => Returned(i) = FreeFlight(OldState(i), R(dt))

(* a particle moving in both directions has made a full step without
   reaching a wall *)
C14_Witness ==
    /\ pc = "applied"
    /\ \E i \in Idx :
          /\ Detected(i)[1] = "None"
          /\ OldState(i)[3] # R(0) /\ OldState(i)[4] # R(0)
          /\ Returned(i)[1] # OldState(i)[1] /\ Returned(i)[2] # OldState(i)[2]
          /\ Returned(i)[3] = OldState(i)[3]

(* the first application of compute_particle to the input of Scenario A *)
ScenarioAInput ==
    /\ N = ScenarioA.N /\ box_size = ScenarioA.box_size /\ dt = ScenarioA.dt
    /\ law = "none" /\ current_step = 0
    /\ bufs[particles_s_old] = ScenarioA.particles

(* C15 as stated: in Scenario A one step detects a crossing of the right wall
   at lambda = 0.02, the velocity after the step is (-5, 0), and the position
   is near x = 9.8 (within 0.1 of it), y = 5. *)
C15_ScenarioA_Near98 ==
    (ScenarioAInput /\ pc = "applied") =>
        /\ Detected(0) = <<"right", <<1, 50>> >>
        /\ Returned(0)[3] = R(-5) /\ Returned(0)[4] = R(0)
        /\ Returned(0)[2] = R(5)
        /\ RLe(<<97, 10>>, Returned(0)[1]) /\ RLe(Returned(0)[1], <<99, 10>>)

(* C15, amended: in Scenario A one step detects a crossing of the right wall
   at lambda = 0.02 exactly, the velocity after the step is (-5, 0), and the
   position is x = 5.1 (the wall at 10 less the 0.98 * 5 travelled back),
   y = 5, inside the box. *)
C15_ScenarioA ==
    (ScenarioAInput /\ pc = "applied") =>
        /\ Detected(0) = <<"right", <<1, 50>> >>
        /\ results[1] = <<0, << <<51, 10>>, R(5), R(-5), R(0)>> >>
        /\ Returned(0)[1] = RSub(R(ScenarioA.box_size),
                                 RMul(RSub(R(1), Detected(0)[2]), R(5)))
        /\ InBox(Returned(0))

(* compute_particle has returned for the input of Scenario A, with the
   velocity reversed *)
C15_Witness ==
    /\ ScenarioAInput /\ pc = "applied"
    /\ Detected(0)[1] = "right"
    /\ Returned(0)[3] = RNeg(OldState(0)[3])

(* C16: reflection law at a bounce.  On the crossing path under zero force,
   the returned velocity is the old velocity with the component normal to the
   crossed wall negated and the tangential component unchanged; the state at
   the intersection lies on that wall, and reflect leaves its position and its
   tangential velocity as they are and negates its normal velocity. *)
C16_ReflectionLaw ==
    (pc = "applied" /\ law = "none") =>
        \A i \in Idx :
            Detected(i)[1] # "None" =>
                LET w == Detected(i)[1]
                    c == WallAxis(w)
                    old == OldState(i)
                    s_i == FreeFlight(old, RMul(Detected(i)[2], R(dt)))
                IN  /\ Returned(i)[2 + c] = RNeg(old[2 + c])
                    /\ Returned(i)[5 - c] = old[5 - c]
                    /\ s_i[c] = WallCoord(w, box_size)
                    /\ reflect(s_i, w)[1] = s_i[1] /\ reflect(s_i, w)[2] = s_i[2]
                    /\ reflect(s_i, w)[2 + c] = RNeg(s_i[2 + c])
                    /\ reflect(s_i, w)[5 - c] = s_i[5 - c]

(* a particle moving in both directions has bounced off a horizontal wall:
   vy is reversed, vx is not *)
C16_Witness ==
    /\ pc = "applied" /\ law = "none"
    /\ \E i \in Idx :
          /\ Detected(i)[1] \in {"bottom", "top"}
          /\ OldState(i)[3] # R(0) /\ OldState(i)[4] # R(0)
          /\ Returned(i)[3] = OldState(i)[3]
          /\ Returned(i)[4] = RNeg(OldState(i)[4])

(* C18: crossing path order.  When crossing detection returns (wall, lambda),
   compute_particle returns the state reached by an RK4 sub-step of lambda*dt
   from the old state, reflect at that wall, and an RK4 sub-step of
   (1-lambda)*dt from the reflected state; the two sizes sum to dt; left_box
   is called once, before the sub-steps, and reflect once.  Under zero force
   the result is the candidate mirrored at the crossed wall, not the
   candidate. *)
C18_CrossingPathOrder ==
    pc = "applied" =>
        \A i \in Idx :
            Detected(i)[1] # "None" =>
                LET w == Detected(i)[1]
                    c == WallAxis(w)
                    h1 == RMul(Detected(i)[2], R(dt))
                    h2 == RMul(RSub(R(1), Detected(i)[2]), R(dt))
                    ps == bufs[particles_s_old]
                    s_r == reflect(VAdd(OldState(i),
                                        rk4_step(OldState(i), ps, i, h1)), w)
                IN  /\ results[i + 1] = <<i, VAdd(s_r, rk4_step(s_r, ps, i, h2))>>
                    /\ RLt(R(0), h1) /\ RLe(h1, R(dt)) /\ RAdd(h1, h2) = R(dt)
                    /\ compute_particle_calls(i, ps)
                           = << <<"rk4_step", R(dt)>>, <<"left_box">>,
                                <<"rk4_step", h1>>, <<"reflect", w>>,
                                <<"rk4_step", h2>> >>
                    /\ law = "none" =>
                          /\ Returned(i) # Candidate(i)
                          /\ Returned(i)[c] =
                                 RSub(RMul(R(2), WallCoord(w, box_size)),
                                      Candidate(i)[c])
                          /\ Returned(i)[3 - c] = Candidate(i)[3 - c]

(* a particle has bounced off one wall and ended the step outside the box,
   beyond another wall: the remaining sub-step was not checked *)
C18_Witness ==
    /\ pc = "applied"
    /\ \E i \in Idx :
          /\ Detected(i)[1] # "None"
          /\ RLt(Detected(i)[2], R(1))
          /\ IsFinite(Returned(i))
          /\ ~InBox(Returned(i))

(* ------------------- further properties of the run --------------------- *)
(* every particle of the ensemble E has zero velocity *)
AtRest(E) == \A i \in DOMAIN E : E[i][3] = R(0) /\ E[i][4] = R(0)

(* C17: Scenario B.  If every velocity of the initial ensemble is zero and
   the force is zero, then every emitted record and the committed ensemble
   hold the initial ensemble, for every N and at every step; every task
   returns its particle's initial state, detects no crossing and calls
   neither reflect nor a sub-step. *)
C17_StationaryEnsemble ==
    (outfile # <<>> /\ law = "none" /\ AtRest(outfile[1][2])) =>
        /\ \A r \in 1 .. Len(outfile) : outfile[r][2] = outfile[1][2]
        /\ bufs[particles_s_old] = outfile[1][2]
        /\ \A j \in DOMAIN tasks :
              tasks[j].status = "done" =>
                  LET i == tasks[j].idx
                      s == tasks[j].particles[i]
                      ps == tasks[j].particles
                  IN  /\ tasks[j].result = <<i, outfile[1][2][i]>>
                      /\ left_box(box_size, s,
                                  VAdd(s, rk4_step(s, ps, i, R(dt))))[1] = "None"
                      /\ compute_particle_calls(i, ps)
                             = << <<"rk4_step", R(dt)>>, <<"left_box">> >>

(* a run of two steps of two particles at rest in different places, away
   from the origin, has ended: three records *)
C17_Witness ==
    /\ N = 2 /\ law = "none" /\ pc = "done" /\ Len(outfile) = 3
    /\ AtRest(outfile[1][2])
    /\ outfile[1][2][0] # outfile[1][2][1]
    /\ outfile[1][2][0] # ZeroState /\ outfile[1][2][1] # ZeroState
    /\ outfile[3][2] = outfile[1][2]

(* C19: no stale data through buffer reuse.  When the buffers are swapped,
   every slot of the new buffer has been written in this step, exactly once;
   every record emitted for a step holds, in every slot i, the result that the
   task of index i computed from the ensemble of the record before it, so no
   slot carries a value of an earlier step or of the zero-initialised array. *)
C19_NoStaleData ==
    /\ [][particles_s_old' # particles_s_old =>
             \A i \in Idx :
                 /\ writes[i] = 1
                 /\ \E j \in DOMAIN tasks :
                       /\ tasks[j].idx = i
                       /\ bufs[particles_s_new][i] = tasks[j].result[2]]_vars
    /\ [][(outfile' # outfile /\ outfile # <<>>) =>
             \A i \in Idx :
                 \E j \in DOMAIN tasks :
                     /\ tasks[j].idx = i /\ tasks[j].status = "done"
                     /\ tasks[j].particles = Last(outfile)[2]
                     /\ tasks[j].result = compute_particle(i, Last(outfile)[2])
                     /\ Last(outfile')[2][i] = tasks[j].result[2]]_vars
    /\ [][(pc = "dispatch") => (\A i \in Idx : writes'[i] = 0)]_vars

(* the third record of two particles has been emitted from the array that
   held the initial ensemble: both slots differ from the initial ensemble,
   and the second record, from the zero-initialised array, holds no zero
   state *)
C19_Witness ==
    /\ N = 2 /\ Len(outfile) = 3 /\ particles_s_old = "A"
    /\ \A i \in Idx :
          /\ outfile[3][2][i] # outfile[1][2][i]
          /\ outfile[3][2][i] # outfile[2][2][i]
          /\ outfile[2][2][i] # ZeroState
          /\ IsFinite(outfile[3][2][i])

=============================================================================
